---- MODULE Spec2Model ----
(***************************************************************************)
(* Mindmap sync worker: the two-replica tree reconciliation                *)
(* (mergeMindmapData / mergeNodes) and the /api/sync handler that reads    *)
(* the stored snapshot from KV, merges the pushed snapshot into it and     *)
(* writes the result back.                                                 *)
(***************************************************************************)
EXTENDS Integers, Sequences, FiniteSets, TLC

(* ------------------------------ bounds --------------------------------- *)

\* client timestamps are the instants 1..MaxTime
MaxTime == 2
\* longest deletedNodes array a client sends
MaxRecs == 1
\* number of POST /api/sync requests served in one behaviour
MaxPush == 2

(* ------------------------------ values --------------------------------- *)

\* JavaScript null / undefined (both falsy)
Null == [null |-> TRUE]

\* the value of a missing property, as a member of a Set<string>
Undefined == "<undefined>"

\* the root's id and the ids of the other nodes
RootId == "root"
NodeIds == {"a", "b"}

\* values of a node's scalar payload field
Labels == {"x", "y"}

\* a node: MakeNode models the object literal {id, name, children}
MakeNode(id, name, children) == [id |-> id, name |-> name, children |-> children]

RECURSIVE SeqIds(_)
\* the ids of all nodes of a sequence of subtrees, with repetitions
SeqIds(nodes) ==
    IF nodes = <<>> THEN <<>>
    ELSE <<Head(nodes).id>> \o SeqIds(Head(nodes).children) \o SeqIds(Tail(nodes))

\* the ids of all nodes of a tree (null has none), in pre-order
TreeIds(tree) == IF tree = Null THEN <<>> ELSE SeqIds(<<tree>>)

Range(s) == {s[i] : i \in DOMAIN s}

\* all node ids of a tree are pairwise distinct
UniqueIds(tree) ==
    LET ids == TreeIds(tree)
    IN  \A i, j \in DOMAIN ids : ids[i] = ids[j] => i = j

RECURSIVE Forests(_, _)
\* every ordered forest whose nodes carry pairwise distinct ids taken from S
\* and names taken from L
Forests(S, L) ==
    {<<>>} \cup UNION {
        UNION { { <<MakeNode(k, l, c)>> \o f : f \in Forests((S \ {k}) \ Range(SeqIds(c)), L) }
                : c \in Forests(S \ {k}, L) }
        : <<k, l>> \in S \X L }

\* every tree a well-formed snapshot can hold: unique ids, root id RootId
Trees == { MakeNode(RootId, l, f) : <<l, f>> \in Labels \X Forests(NodeIds, Labels) }

\* the trees over one more id, all of one name: the shapes of three nodes
\* under the root
ShapeIds == NodeIds \cup {"c"}
ShapeTrees == { MakeNode(RootId, "x", f) : f \in Forests(ShapeIds, {"x"}) }

\* the trees over NodeIds, all of one name
PlainTrees == { MakeNode(RootId, "x", f) : f \in Forests(NodeIds, {"x"}) }

(* -------------------------- deletion records --------------------------- *)

\* A deletion record is a string. DelRecord(k, at) is the text
\* JSON.stringify({id: k, deletedAt: at}); BareRecord(k) is the bare id k,
\* a text JSON.parse rejects; NoIdRecord is the text of a JSON object
\* without an id.
DelRecord(k, at) == [text |-> "object", id |-> k, deletedAt |-> at]
BareRecord(k) == [text |-> "bare", raw |-> k]
NoIdRecord == [text |-> "object", deletedAt |-> 1]

Records == { DelRecord(k, 1) : k \in NodeIds } \cup {BareRecord("a"), NoIdRecord}
\* the records of the narrower input families
ShapeRecords == { DelRecord("c", 1) }
EditRecords == { DelRecord("a", 1) }
ClientRecords == { DelRecord(k, 1) : k \in NodeIds }

\* JSON.parse(record): throws on text that is no JSON
JSONparse(record) ==
    IF record.text = "bare" THEN [threw |-> TRUE]
    ELSE [threw |-> FALSE, value |-> record]

\* parsed.id: undefined when the object has no such property
PropId(obj) == IF "id" \in DOMAIN obj THEN obj.id ELSE Undefined

RECURSIVE SeqsUpTo(_, _)
\* the sequences over S of length at most n
SeqsUpTo(S, n) ==
    IF n = 0 THEN {<<>>}
    ELSE SeqsUpTo(S, n - 1) \cup { Append(s, x) : <<s, x>> \in { s \in SeqsUpTo(S, n - 1) : Len(s) = n - 1 } \X S }

(* ------------------------------ timestamps ----------------------------- *)

\* a timestamp string: toISOString of instant t
ISO(t) == [iso |-> t]
\* a timestamp string that is no date
InvalidDate == [text |-> "not a date"]
NaN == -1

\* new Date(ts).getTime()
DateGetTime(ts) == IF "iso" \in DOMAIN ts THEN ts.iso ELSE NaN

\* a > b on numbers: false when either is NaN
Greater(a, b) == a # NaN /\ b # NaN /\ a > b

Times == { ISO(t) : t \in 1..MaxTime }
ClientTimes == Times \cup {InvalidDate}

(* ------------------------------ snapshots ------------------------------ *)

\* the auxiliary fields (currentCenterId, viewOffset) a client may send
Views == { [currentCenterId |-> RootId, viewOffset |-> [x |-> 0, y |-> 0]],
           [currentCenterId |-> "a", viewOffset |-> [x |-> 10, y |-> -5]] }

\* MindmapData with every field present
MakeData(tree, view, deletedNodes, timestamp) ==
    [tree |-> tree, currentCenterId |-> view.currentCenterId,
     viewOffset |-> view.viewOffset, deletedNodes |-> deletedNodes,
     timestamp |-> timestamp]

\* MindmapData of the older schema: no deletedNodes property
MakeOldData(tree, view, timestamp) ==
    [tree |-> tree, currentCenterId |-> view.currentCenterId,
     viewOffset |-> view.viewOffset, timestamp |-> timestamp]

\* every snapshot a client can send
Snapshots ==
    { MakeData(t, v, d, ts) :
        <<t, v, d, ts>> \in Trees \X Views \X SeqsUpTo(Records, MaxRecs) \X ClientTimes }
    \cup { MakeOldData(t, v, ts) : <<t, v, ts>> \in Trees \X Views \X ClientTimes }

\* the snapshots over ShapeTrees: one view, records naming one id, valid
\* dates
RootView == [currentCenterId |-> RootId, viewOffset |-> [x |-> 0, y |-> 0]]
ShapeSnapshots ==
    { MakeData(t, RootView, d, ts) :
        <<t, d, ts>> \in ShapeTrees \X SeqsUpTo(ShapeRecords, MaxRecs) \X Times }

\* the snapshots that vary the deletion records: every kind of record, a
\* missing deletedNodes property, dates and strings that are no dates, over
\* the trees of one name
TombSnapshots ==
    { MakeData(t, RootView, d, ts) :
        <<t, d, ts>> \in PlainTrees \X SeqsUpTo(Records, MaxRecs) \X ClientTimes }
    \cup { MakeOldData(t, RootView, ts) : <<t, ts>> \in PlainTrees \X ClientTimes }

\* the snapshots that vary the payload: every name at every node, both
\* views, dates and strings that are no dates, records naming one id
EditSnapshots ==
    { MakeData(t, v, d, ts) :
        <<t, v, d, ts>> \in Trees \X Views \X SeqsUpTo(EditRecords, MaxRecs) \X ClientTimes }

(* ------------------------------ mergeNodes ----------------------------- *)

\* deletedIds.has(node.id)
IsDeleted(node, deletedIds) == node.id \in deletedIds

\* newerChildMap: the children by id; a later child of the same id replaces
\* an earlier one
NewerChildMap(newerChildren) ==
    [ k \in { newerChildren[i].id : i \in DOMAIN newerChildren } |->
        newerChildren[CHOOSE i \in DOMAIN newerChildren :
            /\ newerChildren[i].id = k
            /\ \A j \in DOMAIN newerChildren : newerChildren[j].id = k => j <= i] ]

\* mergedChildren.findIndex(c => c.id === id): -1 when there is none
FindIndex(mergedChildren, id) ==
    IF \E i \in DOMAIN mergedChildren : mergedChildren[i].id = id
    THEN CHOOSE i \in DOMAIN mergedChildren :
            /\ mergedChildren[i].id = id
            /\ \A j \in DOMAIN mergedChildren : mergedChildren[j].id = id => i <= j
    ELSE -1

\* PushOlder with the push left out: a child only the older side holds is lost
PushOlderDropped(mergedChildren, oldChild) == mergedChildren

\* mergedChildren.push(oldChild)
PushOlder(mergedChildren, oldChild) == Append(mergedChildren, oldChild)

\* ReplaceMerged that pushes the merged child instead of replacing in place
ReplaceMergedAppends(mergedChildren, index, mergedChild) ==
    IF mergedChild # Null THEN Append(mergedChildren, mergedChild) ELSE mergedChildren

\* if (mergedChild) { if (index !== -1) mergedChildren[index] = mergedChild }
ReplaceMerged(mergedChildren, index, mergedChild) ==
    IF mergedChild # Null /\ index # -1
    THEN [mergedChildren EXCEPT ![index] = mergedChild]
    ELSE mergedChildren

\* mergedChildren.filter(c => c !== null)
FilterNull(mergedChildren) == SelectSeq(mergedChildren, LAMBDA c : c # Null)

RECURSIVE mergeNodes(_, _, _)
RECURSIVE ForEachOlder(_, _, _, _, _)

\* olderChildren.forEach(...) from the i-th child on, threading mergedChildren
ForEachOlder(olderChildren, i, mergedChildren, newerChildMap, deletedIds) ==
    IF i > Len(olderChildren) THEN mergedChildren
    ELSE LET oldChild == olderChildren[i]
         IN  IF IsDeleted(oldChild, deletedIds)
             THEN ForEachOlder(olderChildren, i + 1, mergedChildren, newerChildMap, deletedIds)
             ELSE IF oldChild.id \notin DOMAIN newerChildMap
             THEN ForEachOlder(olderChildren, i + 1, PushOlder(mergedChildren, oldChild),
                               newerChildMap, deletedIds)
             ELSE LET newerChild == newerChildMap[oldChild.id]
                      mergedChild == mergeNodes(newerChild, oldChild, deletedIds)
                      index == FindIndex(mergedChildren, oldChild.id)
                  IN  ForEachOlder(olderChildren, i + 1,
                                   ReplaceMerged(mergedChildren, index, mergedChild),
                                   newerChildMap, deletedIds)

mergeNodes(newerNode, olderNode, deletedIds) ==
    IF newerNode = Null THEN olderNode
    ELSE IF olderNode = Null THEN newerNode
    ELSE IF IsDeleted(newerNode, deletedIds) THEN Null
    ELSE IF IsDeleted(olderNode, deletedIds) THEN Null
    ELSE LET newerChildren == newerNode.children
             olderChildren == olderNode.children
             mergedChildren == ForEachOlder(olderChildren, 1, newerChildren,
                                            NewerChildMap(newerChildren), deletedIds)
         IN  [newerNode EXCEPT !.children = FilterNull(mergedChildren)]

(* --------------------------- mergeMindmapData -------------------------- *)

\* data.deletedNodes || []
DeletedNodesOf(data) ==
    IF "deletedNodes" \in DOMAIN data THEN data.deletedNodes ELSE <<>>

RECURSIVE SetAddAll(_, _)
\* a JavaScript Set in insertion order: add every element of seq to set
SetAddAll(set, seq) ==
    IF seq = <<>> THEN set
    ELSE SetAddAll(IF Head(seq) \in Range(set) THEN set ELSE Append(set, Head(seq)), Tail(seq))

\* AllDeletedNodes built from the local records alone
AllDeletedNodesLocalOnly(cloudData, localData) ==
    SetAddAll(<<>>, DeletedNodesOf(localData))

\* new Set([...cloudDeletedNodes, ...localDeletedNodes])
AllDeletedNodes(cloudData, localData) ==
    SetAddAll(SetAddAll(<<>>, DeletedNodesOf(cloudData)), DeletedNodesOf(localData))

\* AddParsed whose catch branch falls back to the record's text as the id
AddParsedRawFallback(deletedIds, record) ==
    LET parsed == JSONparse(record)
    IN  IF parsed.threw THEN deletedIds \cup {record.raw}
        ELSE deletedIds \cup {PropId(parsed.value)}

\* try { deletedIds.add(JSON.parse(record).id) } catch (e) { }
AddParsed(deletedIds, record) ==
    LET parsed == JSONparse(record)
    IN  IF parsed.threw THEN deletedIds ELSE deletedIds \cup {PropId(parsed.value)}

RECURSIVE ParseRecords(_, _)
\* the for-of loop over allDeletedNodes
ParseRecords(deletedIds, allDeletedNodes) ==
    IF allDeletedNodes = <<>> THEN deletedIds
    ELSE ParseRecords(AddParsed(deletedIds, Head(allDeletedNodes)), Tail(allDeletedNodes))

\* LocalIsNewer with >= in place of >: a tie goes to local
LocalIsNewerOnTie(cloudData, localData) ==
    LET localTime == DateGetTime(localData.timestamp)
        cloudTime == DateGetTime(cloudData.timestamp)
    IN  localTime # NaN /\ cloudTime # NaN /\ localTime >= cloudTime

\* localTime > cloudTime
LocalIsNewer(cloudData, localData) ==
    Greater(DateGetTime(localData.timestamp), DateGetTime(cloudData.timestamp))

NewerData(cloudData, localData) ==
    IF LocalIsNewer(cloudData, localData) THEN localData ELSE cloudData

OlderData(cloudData, localData) ==
    IF LocalIsNewer(cloudData, localData) THEN cloudData ELSE localData

\* now is the instant new Date() reads
mergeMindmapData(cloudData, localData, now) ==
    LET allDeletedNodes == AllDeletedNodes(cloudData, localData)
        deletedIds == ParseRecords({}, allDeletedNodes)
        newerData == NewerData(cloudData, localData)
        olderData == OlderData(cloudData, localData)
        mergedTree == mergeNodes(newerData.tree, olderData.tree, deletedIds)
    IN  [tree |-> mergedTree,
         currentCenterId |-> newerData.currentCenterId,
         viewOffset |-> newerData.viewOffset,
         deletedNodes |-> allDeletedNodes,
         timestamp |-> ISO(now)]

(* ------------- the worker of mindmap/clouf: merge by name -------------- *)

\* newerChildMap of mindmap/clouf: the children by name
cloufChildMap(newerChildren) ==
    [ n \in { newerChildren[i].name : i \in DOMAIN newerChildren } |->
        newerChildren[CHOOSE i \in DOMAIN newerChildren :
            /\ newerChildren[i].name = n
            /\ \A j \in DOMAIN newerChildren : newerChildren[j].name = n => j <= i] ]

\* mergedChildren.findIndex(c => c.name === name)
cloufFindIndex(mergedChildren, name) ==
    IF \E i \in DOMAIN mergedChildren : mergedChildren[i].name = name
    THEN CHOOSE i \in DOMAIN mergedChildren :
            /\ mergedChildren[i].name = name
            /\ \A j \in DOMAIN mergedChildren : mergedChildren[j].name = name => i <= j
    ELSE -1

RECURSIVE cloufMergeNodes(_, _)
RECURSIVE cloufForEachOlder(_, _, _, _)

cloufForEachOlder(olderChildren, i, mergedChildren, newerChildMap) ==
    IF i > Len(olderChildren) THEN mergedChildren
    ELSE LET oldChild == olderChildren[i]
         IN  IF oldChild.name \notin DOMAIN newerChildMap
             THEN cloufForEachOlder(olderChildren, i + 1,
                                    Append(mergedChildren, oldChild), newerChildMap)
             ELSE LET mergedChild == cloufMergeNodes(newerChildMap[oldChild.name], oldChild)
                      index == cloufFindIndex(mergedChildren, oldChild.name)
                  IN  cloufForEachOlder(olderChildren, i + 1,
                        IF index # -1 THEN [mergedChildren EXCEPT ![index] = mergedChild]
                                      ELSE mergedChildren,
                        newerChildMap)

cloufMergeNodes(newerNode, olderNode) ==
    IF newerNode = Null THEN olderNode
    ELSE IF olderNode = Null THEN newerNode
    ELSE [newerNode EXCEPT !.children =
            cloufForEachOlder(olderNode.children, 1, newerNode.children,
                              cloufChildMap(newerNode.children))]

cloufMergeMindmapData(cloudData, localData, now) ==
    LET newerData == NewerData(cloudData, localData)
        olderData == OlderData(cloudData, localData)
    IN  [tree |-> cloufMergeNodes(newerData.tree, olderData.tree),
         currentCenterId |-> newerData.currentCenterId,
         viewOffset |-> newerData.viewOffset,
         timestamp |-> ISO(now)]

(* ------------------------------ handleSync ----------------------------- *)

\* !x is false exactly for the values a parsed JSON object can take
Truthy(x) == x # Null

\* JSON.stringify(data) written to KV and read back with get(key, 'json'):
\* an object whose properties are strings, numbers, arrays and objects
\* keeps every property, and null stays null
KVRoundTrip(data) ==
    IF data = Null THEN Null ELSE [f \in DOMAIN data |-> data[f]]

\* the branch the POST handler takes on (cloudData, localData)
SyncBranch(cloudData, localData) ==
    IF ~Truthy(cloudData) /\ Truthy(localData) THEN "local"
    ELSE IF Truthy(cloudData) /\ ~Truthy(localData) THEN "cloud"
    ELSE IF Truthy(cloudData) /\ Truthy(localData) THEN "merge"
    ELSE "none"

\* MergedData that stamps an adopted snapshot with the time of the push
MergedDataStamped(cloudData, localData, now) ==
    CASE SyncBranch(cloudData, localData) = "local" ->
            [localData EXCEPT !.timestamp = ISO(now)]
      [] SyncBranch(cloudData, localData) = "cloud" ->
            [cloudData EXCEPT !.timestamp = ISO(now)]
      [] OTHER -> mergeMindmapData(cloudData, localData, now)

\* mergedData, on the three branches that assign it
MergedData(cloudData, localData, now) ==
    CASE SyncBranch(cloudData, localData) = "local" -> localData
      [] SyncBranch(cloudData, localData) = "cloud" -> cloudData
      [] OTHER -> mergeMindmapData(cloudData, localData, now)

\* handleSync of mindmap/clouf: the same branches around its own merge
cloufMergedData(cloudData, localData, now) ==
    CASE SyncBranch(cloudData, localData) = "local" -> localData
      [] SyncBranch(cloudData, localData) = "cloud" -> cloudData
      [] OTHER -> cloufMergeMindmapData(cloudData, localData, now)

\* the two deployed workers that serve /api/sync
Workers == {"combined", "clouf"}

\* the JSON bodies of the responses
OkResponse(data) == [status |-> 200, success |-> TRUE, data |-> data]
NoDataResponse == [status |-> 400, success |-> FALSE, error |-> "No data provided"]

(* ------------------------------- state --------------------------------- *)

\* the requests the worker may be serving at the same time
Requests == {1, 2}

VARIABLES
    remote,     \* mergeMindmapData's first argument
    local,      \* mergeMindmapData's second argument
    result,     \* what mergeMindmapData returned, Null before the call
    phase,      \* "input" before the call, "merged" after it
    kv,         \* the value stored in MINDMAP_KV under 'mindmap_data'
    req,        \* per request: where handleSync stands and its locals
    resp,       \* the response handleSync last returned
    pushes,     \* POST requests received so far
    last,       \* the last completed KV put: which of the two snapshots the
                \* handler held (and the one it held alone), the branch it
                \* took, the store just before the put, whether another put
                \* came between its get and its put, and what it returned
    worker,     \* which of the two workers is deployed
    clock       \* the instant new Date() reads in the worker

vars == <<remote, local, result, phase, kv, req, resp, pushes, last, worker, clock>>

mergeVars == <<remote, local, result, phase, worker>>
syncVars == <<kv, req, resp, pushes, last, clock>>

Idle == [pc |-> "idle", localData |-> Null, cloudData |-> Null]

(* ---------------- the reconciler applied to a pair of inputs ------------ *)

SyncIdle ==
    /\ kv = Null
    /\ req = [r \in Requests |-> Idle]
    /\ resp = Null
    /\ pushes = 0
    /\ last = Null
    /\ clock = 1

InitMerge ==
    /\ remote \in Snapshots
    /\ local \in Snapshots
    /\ result = Null
    /\ phase = "input"
    /\ worker = "combined"
    /\ SyncIdle

\* one call mergeMindmapData(remote, local) at wall-clock time now
Merge ==
    /\ phase = "input"
    /\ \E now \in 1..MaxTime + 1 :
        result' = mergeMindmapData(remote, local, now)
    /\ phase' = "merged"
    /\ UNCHANGED <<remote, local, worker>>
    /\ UNCHANGED syncVars

NextMerge == Merge

SpecMerge == InitMerge /\ [][NextMerge]_vars

InitShape ==
    /\ remote \in ShapeSnapshots
    /\ local \in ShapeSnapshots
    /\ result = Null
    /\ phase = "input"
    /\ worker = "combined"
    /\ SyncIdle

SpecShape == InitShape /\ [][NextMerge]_vars

InitTomb ==
    /\ remote \in TombSnapshots
    /\ local \in TombSnapshots
    /\ result = Null
    /\ phase = "input"
    /\ worker = "combined"
    /\ SyncIdle

SpecTomb == InitTomb /\ [][NextMerge]_vars

InitEdit ==
    /\ remote \in EditSnapshots
    /\ local \in EditSnapshots
    /\ result = Null
    /\ phase = "input"
    /\ worker = "combined"
    /\ SyncIdle

SpecEdit == InitEdit /\ [][NextMerge]_vars

(* ----------------------- the /api/sync endpoint ------------------------ *)

\* the snapshots the clients of the endpoint push: well-formed ones, whose
\* own tree holds no node their own deletion records name
ParsableIds(data) ==
    { rec.id : rec \in { x \in Range(DeletedNodesOf(data)) :
                            x.text = "object" /\ "id" \in DOMAIN x } }

WellFormed(data) ==
    /\ UniqueIds(data.tree)
    /\ Range(TreeIds(data.tree)) \cap ParsableIds(data) = {}

\* the endpoint is driven with the well-formed snapshots over the trees of
\* one name, of either schema, with parsable records and valid dates
ClientSnapshots ==
    { s \in { MakeData(t, RootView, d, ts) :
                <<t, d, ts>> \in PlainTrees \X SeqsUpTo(ClientRecords, MaxRecs) \X Times }
            \cup { MakeOldData(t, RootView, ts) : <<t, ts>> \in PlainTrees \X Times } :
        WellFormed(s) }

InitSync ==
    /\ remote = Null
    /\ local = Null
    /\ result = Null
    /\ phase = "sync"
    /\ worker \in Workers
    /\ SyncIdle

\* GET: const cloudData = await KV.get(...); return {success, data}
Get(r) ==
    /\ req[r].pc = "idle"
    /\ resp' = OkResponse(KVRoundTrip(kv))
    /\ UNCHANGED <<kv, req, pushes, last, clock>>
    /\ UNCHANGED mergeVars

\* POST: const body = await req.json(); const localData = body.localData.
\* A new request is numbered with the lowest number not under way.
PostBody(r, clients) ==
    /\ req[r].pc = "idle"
    /\ \A o \in Requests : o < r => req[o].pc # "idle"
    /\ pushes < MaxPush
    /\ \E localData \in clients \cup {Null} :
        req' = [req EXCEPT ![r] = [pc |-> "get", localData |-> localData,
                                   cloudData |-> Null]]
    /\ pushes' = pushes + 1
    /\ UNCHANGED <<kv, resp, last, clock>>
    /\ UNCHANGED mergeVars

\* POST: const cloudData = await KV.get('mindmap_data', 'json')
PostGet(r) ==
    /\ req[r].pc = "get"
    /\ req' = [req EXCEPT ![r].pc = "put", ![r].cloudData = KVRoundTrip(kv)]
    /\ UNCHANGED <<kv, resp, pushes, last, clock>>
    /\ UNCHANGED mergeVars

\* POST: neither side holds data: 400, nothing is written
PostNone(r) ==
    /\ req[r].pc = "put"
    /\ SyncBranch(req[r].cloudData, req[r].localData) = "none"
    /\ resp' = NoDataResponse
    /\ req' = [req EXCEPT ![r] = Idle]
    /\ UNCHANGED <<kv, pushes, last, clock>>
    /\ UNCHANGED mergeVars

\* POST: mergedData is assigned, await KV.put(...), return {success, data}.
\* The worker's clock moves on by one instant with every put.
PostPut(r) ==
    /\ req[r].pc = "put"
    /\ SyncBranch(req[r].cloudData, req[r].localData) # "none"
    /\ LET mergedData ==
            IF worker = "clouf"
            THEN cloufMergedData(req[r].cloudData, req[r].localData, clock)
            ELSE MergedData(req[r].cloudData, req[r].localData, clock)
       IN  /\ kv' = KVRoundTrip(mergedData)
           /\ resp' = OkResponse(mergedData)
           /\ last' = [hasCloud |-> req[r].cloudData # Null,
                       hasLocal |-> req[r].localData # Null,
                       present |-> IF req[r].cloudData = Null THEN req[r].localData
                                   ELSE IF req[r].localData = Null THEN req[r].cloudData
                                   ELSE Null,
                       branch |-> SyncBranch(req[r].cloudData, req[r].localData),
                       before |-> kv,
                       raced |-> kv # req[r].cloudData,
                       returned |-> mergedData]
    /\ req' = [req EXCEPT ![r] = Idle]
    /\ clock' = clock + 1
    /\ UNCHANGED pushes
    /\ UNCHANGED mergeVars

\* requests served one after the other: a request is taken up only when
\* no other is under way
NoneUnderWay(r) == \A o \in Requests \ {r} : req[o].pc = "idle"

Next ==
    \/ \E r \in Requests : NoneUnderWay(r) /\ Get(r)
    \/ \E r \in Requests : NoneUnderWay(r) /\ PostBody(r, ClientSnapshots)
    \/ \E r \in Requests : NoneUnderWay(r) /\ PostGet(r)
    \/ \E r \in Requests : NoneUnderWay(r) /\ PostNone(r)
    \/ \E r \in Requests : NoneUnderWay(r) /\ PostPut(r)

Spec == InitSync /\ [][Next]_vars

\* requests served concurrently: each await is a point where another
\* request's handler may run. The clients are those of the current schema.
RaceSnapshots == { s \in ClientSnapshots : "deletedNodes" \in DOMAIN s }

NextRace ==
    \/ \E r \in Requests : Get(r)
    \/ \E r \in Requests : PostBody(r, RaceSnapshots)
    \/ \E r \in Requests : PostGet(r)
    \/ \E r \in Requests : PostNone(r)
    \/ \E r \in Requests : PostPut(r)

\* the worker of part_000 alone: the one the deletion records belong to
InitRace == InitSync /\ worker = "combined"

SpecRace == InitRace /\ [][NextRace]_vars

(* ------------------------- reading a snapshot -------------------------- *)

RECURSIVE IdPathsOf(_, _)
\* the id-paths, from the root down, of all nodes of a sequence of subtrees
\* whose parent has id-path prefix
IdPathsOf(nodes, prefix) ==
    UNION { {Append(prefix, nodes[i].id)}
            \cup IdPathsOf(nodes[i].children, Append(prefix, nodes[i].id))
            : i \in DOMAIN nodes }

IdPaths(tree) == IF tree = Null THEN {} ELSE IdPathsOf(<<tree>>, <<>>)

RECURSIVE NodeAt(_, _)
\* the node reached from node by following path, a sequence of ids that
\* starts with node's own; Null when there is none
NodeAt(node, path) ==
    IF node = Null \/ path = <<>> THEN Null
    ELSE IF node.id # Head(path) THEN Null
    ELSE IF Len(path) = 1 THEN node
    ELSE LET at == { i \in DOMAIN node.children : node.children[i].id = path[2] }
         IN  IF at = {} THEN Null
             ELSE NodeAt(node.children[CHOOSE i \in at : \A j \in at : i <= j], Tail(path))

ChildIds(node) == { node.children[i].id : i \in DOMAIN node.children }

Contains(tree, k) == k \in Range(TreeIds(tree))

Last(path) == path[Len(path)]

\* the ids the parsable deletion records of both inputs name
NamedIds == ParsableIds(remote) \cup ParsableIds(local)

\* the deletion records of data that name id k
RecordsNaming(data, k) ==
    { rec \in Range(DeletedNodesOf(data)) :
        rec.text = "object" /\ "id" \in DOMAIN rec /\ rec.id = k }

Merged == phase = "merged"

\* both inputs carry a timestamp that is a date
DatedInputs == remote.timestamp \in Times /\ local.timestamp \in Times

(* ------------------------------- C1 ------------------------------------ *)

\* one replica deleted K (its tree lacks K, a record of its names K), the
\* other still holds K and has no record for it
DeletedBy(deleter, other, K) ==
    /\ RecordsNaming(deleter, K) # {}
    /\ ~Contains(deleter.tree, K)
    /\ Contains(other.tree, K)
    /\ RecordsNaming(other, K) = {}

\* C1: deletion wins over a concurrent edit. Whenever one input deleted
\* node K and the other still holds K without a record for it, the merged
\* tree holds no node of id K and the merged deletedNodes hold the record
\* naming K, whichever input is the newer one (stated for inputs whose
\* timestamps are dates).
C1_DeletionWins ==
    (Merged /\ DatedInputs) =>
        \A K \in NodeIds :
            (DeletedBy(remote, local, K) \/ DeletedBy(local, remote, K)) =>
                /\ ~Contains(result.tree, K)
                /\ RecordsNaming(result, K) # {}

(* ------------------------------- C2 ------------------------------------ *)

\* C2: addition preservation. When both trees hold node N at the same
\* id-path, one holds child X under N, the other child Y under N, and no
\* deletion record names X, Y, N or an ancestor of N, the merged tree holds
\* N at that id-path with both X and Y among its children, whichever input
\* is the newer one.
C2_AdditionPreserved ==
    Merged =>
        \A p \in IdPaths(remote.tree) \cap IdPaths(local.tree) :
            \A X \in ChildIds(NodeAt(remote.tree, p)) :
                \A Y \in ChildIds(NodeAt(local.tree, p)) :
                    (Range(p) \cup {X, Y}) \cap NamedIds = {} =>
                        /\ NodeAt(result.tree, p) # Null
                        /\ {X, Y} \subseteq ChildIds(NodeAt(result.tree, p))

\* N below the root, X added by the remote side only, Y by the local side
\* only, merged with the local side the newer one
C2_Witness ==
    /\ Merged
    /\ LocalIsNewer(remote, local)
    /\ \E p \in IdPaths(remote.tree) \cap IdPaths(local.tree) :
        /\ Len(p) = 2
        /\ \E X \in ChildIds(NodeAt(remote.tree, p)) :
            \E Y \in ChildIds(NodeAt(local.tree, p)) :
                /\ ~Contains(local.tree, X)
                /\ ~Contains(remote.tree, Y)
                /\ (Range(p) \cup {X, Y}) \cap NamedIds = {}
                /\ {X, Y} \subseteq ChildIds(NodeAt(result.tree, p))

(* ------------------------------- C3 ------------------------------------ *)

\* C3: tombstone union. The merged deletedNodes, as a set of records, are
\* exactly the records of the remote input together with those of the local
\* input, a missing deletedNodes property counting as no records.
C3_TombstoneUnion ==
    Merged =>
        Range(result.deletedNodes) =
            Range(DeletedNodesOf(remote)) \cup Range(DeletedNodesOf(local))

\* both inputs bring a record the other lacks
C3_Witness ==
    /\ Merged
    /\ Range(DeletedNodesOf(remote)) \ Range(DeletedNodesOf(local)) # {}
    /\ Range(DeletedNodesOf(local)) \ Range(DeletedNodesOf(remote)) # {}
    /\ Cardinality(Range(result.deletedNodes)) = 2

(* ------------------------------- C5 ------------------------------------ *)

\* local.timestamp denotes a strictly later instant than remote.timestamp
LocalStrictlyLater ==
    /\ local.timestamp \in Times
    /\ remote.timestamp \in Times
    /\ local.timestamp.iso > remote.timestamp.iso

Base == IF LocalStrictlyLater THEN local ELSE remote

\* C5: newer wins, ties go to remote. The merge base is local exactly when
\* local's timestamp is strictly later, else remote; every node that both
\* trees hold at the same id-path and that no record names is in the merged
\* tree at that id-path with the base's scalar fields, and the merged
\* currentCenterId and viewOffset are the base's.
C5_NewerWins ==
    Merged =>
        /\ result.currentCenterId = Base.currentCenterId
        /\ result.viewOffset = Base.viewOffset
        /\ \A p \in IdPaths(remote.tree) \cap IdPaths(local.tree) :
            Last(p) \notin NamedIds =>
                /\ NodeAt(result.tree, p) # Null
                /\ NodeAt(result.tree, p).id = NodeAt(Base.tree, p).id
                /\ NodeAt(result.tree, p).name = NodeAt(Base.tree, p).name

\* equal timestamps, the two sides disagree on the view and on the name of
\* a node below the root, and the merged values are remote's
C5_Witness ==
    /\ Merged
    /\ local.timestamp = remote.timestamp
    /\ local.timestamp \in Times
    /\ local.currentCenterId # remote.currentCenterId
    /\ result.currentCenterId = remote.currentCenterId
    /\ \E p \in IdPaths(remote.tree) \cap IdPaths(local.tree) :
        /\ Len(p) = 3
        /\ NodeAt(remote.tree, p).name # NodeAt(local.tree, p).name
        /\ NodeAt(result.tree, p).name = NodeAt(remote.tree, p).name

(* ------------------------------- C6 ------------------------------------ *)

\* local is a copy of remote: same tree, same deletion records
SameSnapshot ==
    /\ remote.tree = local.tree
    /\ Range(DeletedNodesOf(remote)) = Range(DeletedNodesOf(local))

\* C6: idempotence of re-merge. Merging a snapshot with a copy of itself,
\* under any two timestamps, gives a tree equal to the snapshot's tree: the
\* same ids, the same children in the same order, the same scalar fields.
C6_Idempotent == (Merged /\ SameSnapshot) => result.tree = remote.tree

\* a tree of depth two merged with its copy under different timestamps
C6_Witness ==
    /\ Merged
    /\ SameSnapshot
    /\ remote.timestamp # local.timestamp
    /\ \E p \in IdPaths(remote.tree) : Len(p) = 3
    /\ NamedIds # {}
    /\ result.tree = local.tree

(* ------------------------------- C8 ------------------------------------ *)

\* the deletedIds mergeMindmapData computes from its two inputs
DeletedIds == ParseRecords({}, AllDeletedNodes(remote, local))

\* the nodes of tree that the merged tree lacks
Excluded(tree) == { p \in IdPaths(tree) : ~Contains(result.tree, Last(p)) }

\* C8: malformed tombstone tolerance. With records that do not parse to an
\* id among the inputs, the merge still returns a snapshot; the ids in
\* deletedIds are exactly the ids the parsable records of both inputs name;
\* and a node of either input is missing from the merged tree only if a
\* parsable record names it or one of its ancestors.
C8_MalformedTolerated ==
    Merged =>
        /\ DOMAIN result =
            {"tree", "currentCenterId", "viewOffset", "deletedNodes", "timestamp"}
        /\ result.tree # Null
        /\ DeletedIds \ {Undefined} = NamedIds
        /\ \A p \in Excluded(remote.tree) \cup Excluded(local.tree) :
            Range(p) \cap NamedIds # {}

\* an unparsable record whose text is the id of a node both trees hold, and
\* a parsable one naming a node that is excluded
C8_Witness ==
    /\ Merged
    /\ BareRecord("a") \in Range(result.deletedNodes)
    /\ Contains(remote.tree, "a") /\ Contains(local.tree, "a")
    /\ Contains(result.tree, "a")
    /\ NamedIds = {"b"}
    /\ Excluded(remote.tree) \cup Excluded(local.tree) # {}

(* ------------------------------- C10 ----------------------------------- *)

\* C10: id uniqueness is preserved. Two trees of pairwise distinct ids and
\* the same root id merge into a tree of pairwise distinct ids, also when
\* an id sits under different parents in the two trees (stated for inputs
\* whose timestamps are dates).
C10_UniqueIdsPreserved ==
    (Merged /\ DatedInputs /\ UniqueIds(remote.tree) /\ UniqueIds(local.tree)
        /\ remote.tree.id = local.tree.id) => UniqueIds(result.tree)

(* ------------------------------- C4 ------------------------------------ *)

NoneInFlight == \A r \in Requests : req[r].pc = "idle"

\* C4: no resurrection across syncs. After pushes of well-formed client
\* snapshots served one after the other into an empty store, the stored
\* tree holds no node whose id a parsable stored deletion record names.
C4_NoResurrection ==
    (worker = "combined" /\ kv # Null) => Range(TreeIds(kv.tree)) \cap ParsableIds(kv) = {}

(* ------------------------------- C7 ------------------------------------ *)

\* the last put was made with exactly one of the two snapshots present
OneSided == last # Null /\ (last.hasCloud # last.hasLocal)

\* C7: single-side adoption. A push served with exactly one of the stored
\* and the pushed snapshot present does not call mergeMindmapData, and
\* stores and returns the present snapshot unchanged.
C7_SingleSideAdopted ==
    OneSided =>
        /\ last.branch # "merge"
        /\ last.present # Null
        /\ last.returned = last.present
        /\ kv = last.present

\* the first push into the empty store, and a push without data onto a
\* filled store
C7_Witness ==
    /\ worker = "combined"
    /\ OneSided
    /\ last.hasCloud
    /\ "deletedNodes" \notin DOMAIN last.present
    /\ kv = last.present
    /\ pushes = 2

(* ------------------------------- C9 ------------------------------------ *)

\* after holds every deletion record of before, and every node of before
\* unless a parsable record of after names it or one of its ancestors
NoLoss(before, after) ==
    \/ before = Null
    \/ /\ Range(DeletedNodesOf(before)) \subseteq Range(DeletedNodesOf(after))
       /\ \A p \in IdPaths(before.tree) :
            \/ Contains(after.tree, Last(p))
            \/ Range(p) \cap ParsableIds(after) # {}

\* C9: lost update. A push whose handler read the store as it stands when
\* it writes (no other push wrote in between) loses nothing the store held;
\* when two pushes both read before either writes, the second write can
\* drop a node or a deletion record the first one stored (the witness).
C9_NoLossWithoutRace ==
    (worker = "combined" /\ last # Null /\ ~last.raced) => NoLoss(last.before, kv)

\* both handlers read the empty store, the first stored a snapshot, and the
\* second overwrote it, dropping a node and a deletion record
C9_LostUpdate ==
    /\ worker = "combined"
    /\ last # Null
    /\ last.raced
    /\ ~last.hasCloud
    /\ last.before # Null
    /\ \E p \in IdPaths(last.before.tree) : ~Contains(kv.tree, Last(p))
    /\ ~(Range(DeletedNodesOf(last.before)) \subseteq Range(DeletedNodesOf(kv)))

====
